---- MODULE Spec2Model ----
(***************************************************************************)
(* fanfiction2ebook (main.py): one thread per link given on the command    *)
(* line downloads a work chapter by chapter, optionally through an on-disk *)
(* chapter cache, and writes one epub per work.  The module models the     *)
(* main thread (start/join loop), every FictionThread (package_fanfic) and *)
(* the files they share: the cache files, the output files, style.css.     *)
(***************************************************************************)
EXTENDS Integers, Sequences, FiniteSets, TLC

\* ------------------------------------------------------------------ bounds
\* Largest chapter number a first page declares / a selector offers.
MaxChapters == 3
\* Largest number of links on the command line.
MaxLinks == 2

\* ------------------------------------------------------------------ inputs
None == [none |-> TRUE]

\* The links the model feeds to the program: two different links of work 1
\* (same id and slug), a link of work 2, and a link without the /s/ segment.
Links ==
    { "https://www.fanfiction.net/s/1/1/a",
      "http://fanfiction.net/s/1/3/a",
      "https://www.fanfiction.net/s/2/1/b",
      "https://www.fanfiction.net/u/1/a" }

\* A faulty variant of the pattern of line 114: /u/ is taken for /s/.
Match_AnySegment(fanfic_link) ==
    CASE fanfic_link = "https://www.fanfiction.net/s/1/1/a" -> [id |-> "1", slug |-> "a"]
      [] fanfic_link = "http://fanfiction.net/s/1/3/a"      -> [id |-> "1", slug |-> "a"]
      [] fanfic_link = "https://www.fanfiction.net/s/2/1/b" -> [id |-> "2", slug |-> "b"]
      [] fanfic_link = "https://www.fanfiction.net/u/1/a"   -> [id |-> "1", slug |-> "a"]
      [] OTHER -> None

\* re.match of the link pattern on the links above: the groups 'id' and 'slug',
\* or None.
Match(fanfic_link) ==
    CASE fanfic_link = "https://www.fanfiction.net/s/1/1/a" -> [id |-> "1", slug |-> "a"]
      [] fanfic_link = "http://fanfiction.net/s/1/3/a"      -> [id |-> "1", slug |-> "a"]
      [] fanfic_link = "https://www.fanfiction.net/s/2/1/b" -> [id |-> "2", slug |-> "b"]
      [] OTHER -> None

\* The links of the runs with several links: one link per work and the
\* malformed one (the same link may be given more than once).
RunLinks == Links \ { "http://fanfiction.net/s/1/3/a" }

\* Values of the environment variable FF_CACHE ("unset": not in the environment).
EnvValues == {"unset", "yes", "YES"}

getenv(value, default) == IF value = "unset" THEN default ELSE value

Threads == 1..MaxLinks
ChapterIds == 1..MaxChapters

\* ------------------------------------------------------------------- state
VARIABLES
    argv,       \* sys.argv[1:]
    FF_CACHE,   \* the environment variable read at start-up
    site,       \* what fanfiction.net serves for each work id
    stylecss,   \* does ./style.css exist
    cachedir,   \* the cache files: name -> contents, or None when absent
    outdir,     \* the output files: name -> contents, or None when absent
    main,       \* the main thread: pc, next link to start, threads to join
    unit        \* the FictionThreads, by start order

vars == <<argv, FF_CACHE, site, stylecss, cachedir, outdir, main, unit>>

\* A faulty variant of line 241: any value but the default turns the cache on.
USE_CACHE_AnyValue == getenv(FF_CACHE, "no") # "no"

\* Line 241.
USE_CACHE == getenv(FF_CACHE, "no") = "yes"

\* A faulty variant of line 103: the file is not put under the work's directory.
CacheFile_Flat(fid, cid) == <<".", cid>>

\* path.join(fid, "%s.html" % cid)
CacheFile(fid, cid) == <<fid, cid>>

\* '%s-%s.epub' % (fic_slug, fic_id)
OutFile(fic_slug, fic_id) == <<fic_slug, fic_id>>

ValidLinks == { l \in Links : Match(l) # None }
Fids == { Match(l).id : l \in ValidLinks }
CacheFiles == { CacheFile(f, c) : f \in Fids \cup {"."}, c \in 1..MaxChapters }
OutFiles == { OutFile(Match(l).slug, Match(l).id) : l \in ValidLinks }

\* Files of an earlier run ("stale", "old" stand for their contents) and the
\* file open(fname, 'w+') leaves before anything is written to it.
Stale == [kind |-> "stale"]
Old == [kind |-> "old"]
Empty == [kind |-> "empty"]

\* ------------------------------------------------------------- the remote site
\* A work on the site: per chapter, does the request succeed ("404": status
\* other than 200) and does the page hold <div id="storytext"> ("nostory": it
\* does not); and what every page of the work shows above the text: is
\* <div id="profile_top"> there, the value of the Chapters key of the info
\* line (0: no such key), is <select id="chap_select"> there, and how many
\* options it has (their values are 1..options).
AllSites ==
    [ page        : [ChapterIds -> {"ok", "404", "nostory"}],
      profile_top : BOOLEAN,
      Chapters    : 0..MaxChapters,
      chap_select : BOOLEAN,
      options     : 0..MaxChapters ]

Complete1 == [n \in ChapterIds |-> "ok"]

\* A work whose first chapter cannot be fetched, and one whose pages have no
\* profile region.
DownSite ==
    [page |-> [Complete1 EXCEPT ![1] = "404"], profile_top |-> TRUE,
     Chapters |-> 0, chap_select |-> FALSE, options |-> 0]
NoProfileSite ==
    [page |-> Complete1, profile_top |-> FALSE,
     Chapters |-> 0, chap_select |-> FALSE, options |-> 0]
\* A well-formed work of n chapters, all there.
CompleteSite(n) ==
    [page |-> Complete1, profile_top |-> TRUE,
     Chapters |-> n, chap_select |-> TRUE, options |-> n]

\* The sites that differ in something package_fanfic looks at: what it never
\* reads (anything behind a failed first fetch or a missing region, the pages
\* behind the declared count or behind the first chapter without a title) is
\* held at a fixed value.
Distinct(w) ==
    LET count == IF w.Chapters = 0 THEN 1 ELSE w.Chapters
        titled == IF w.Chapters = 0 THEN 1 ELSE w.options
        last == IF w.page[1] # "ok" \/ titled = 0 THEN 1
                ELSE IF titled < count THEN titled ELSE count
    IN  /\ w.page[1] = "404" => w = DownSite
        /\ ~w.profile_top => w = NoProfileSite
        /\ w.Chapters = 0 => ~w.chap_select /\ w.options = 0
        /\ w.Chapters # 0 /\ ~w.chap_select =>
              w.Chapters = 2 /\ w.options = 0 /\ w.page = Complete1
        /\ w.options <= count + 1
        /\ titled = 0 => w.page[1] = "ok"
        /\ \A n \in ChapterIds : n > last => w.page[n] = "ok"

Sites == { w \in AllSites : Distinct(w) }

\* A work of two chapters whose second chapter cannot be fetched, and a
\* well-formed work without a Chapters key.
SkipSite == [CompleteSite(2) EXCEPT !.page[2] = "404"]
SingleSite ==
    [page |-> Complete1, profile_top |-> TRUE,
     Chapters |-> 0, chap_select |-> FALSE, options |-> 0]

\* The sites of the runs with several links: a work is complete with two
\* chapters or with one, or lacks its second chapter.
RunSites == { CompleteSite(2), SkipSite, SingleSite }

\* ------------------------------------------------------------ pure functions
WorkTitle == [text |-> "T", value |-> 0]
OptionTitle(n) == [text |-> "option", value |-> n]

\* download_chapter: FileNotFoundError unless the status is 200, else the
\* parsed page.
download_chapter(fid, ch) ==
    IF site[fid].page[ch] = "404"
    THEN [raise |-> "FileNotFoundError"]
    ELSE [ raise       |-> "none",
           url         |-> <<fid, ch>>,
           profile_top |-> site[fid].profile_top,
           Chapters    |-> site[fid].Chapters,
           chap_select |-> site[fid].chap_select,
           options     |-> 1..site[fid].options,
           storytext   |-> site[fid].page[ch] = "ok" ]

\* A faulty variant of extract_header: the regions are not checked for.
extract_header_Unchecked(fic_body) ==
    IF fic_body.Chapters # 0 /\ fic_body.chap_select
    THEN [ raise          |-> "none",
           title          |-> WorkTitle,
           Chapters       |-> fic_body.Chapters,
           chapter_titles |-> [n \in fic_body.options |-> OptionTitle(n)] ]
    ELSE [ raise          |-> "none",
           title          |-> WorkTitle,
           Chapters       |-> 1,
           chapter_titles |-> (1 :> WorkTitle) ]

\* A faulty variant of extract_header: without a Chapters key the count is
\* set (line 72) and the title of chapter 1 is not (line 73).
extract_header_NoFirstTitle(fic_body) ==
    IF ~fic_body.profile_top
    THEN [raise |-> "RuntimeError"]
    ELSE IF fic_body.Chapters # 0
         THEN IF ~fic_body.chap_select
              THEN [raise |-> "RuntimeError"]
              ELSE [ raise          |-> "none",
                     title          |-> WorkTitle,
                     Chapters       |-> fic_body.Chapters,
                     chapter_titles |-> [n \in fic_body.options |-> OptionTitle(n)] ]
         ELSE [ raise          |-> "none",
                title          |-> WorkTitle,
                Chapters       |-> 1,
                chapter_titles |-> [n \in {} |-> WorkTitle] ]

\* extract_header: the heading, or the error it raises.
extract_header(fic_body) ==
    IF ~fic_body.profile_top
    THEN [raise |-> "RuntimeError"]
    ELSE IF fic_body.Chapters # 0
         THEN IF ~fic_body.chap_select
              THEN [raise |-> "RuntimeError"]
              ELSE [ raise          |-> "none",
                     title          |-> WorkTitle,
                     Chapters       |-> fic_body.Chapters,
                     chapter_titles |-> [n \in fic_body.options |-> OptionTitle(n)] ]
         ELSE [ raise          |-> "none",
                title          |-> WorkTitle,
                Chapters       |-> 1,
                chapter_titles |-> (1 :> WorkTitle) ]

\* extract_chapter: the rendered page, or the error it raises.
extract_chapter(fic_body, chapter_title) ==
    IF ~fic_body.storytext
    THEN [raise |-> "RuntimeError"]
    ELSE [raise |-> "none", kind |-> "rendered", title |-> chapter_title, body |-> fic_body.url]

\* epub.EpubHtml(title=..., file_name='chapter_%s.xhtml' % ch_id) with its content
EpubHtml(ch_id, title, content) == [id |-> ch_id, title |-> title, content |-> content]

\* Lines 190-204: the table of contents and the spine built from `chapters`.
\* A page of the book as the table of contents and the spine refer to it.
IntroRef == [file |-> "intro.xhtml", ch |-> 0]
NavRef == [file |-> "toc.xhtml", ch |-> 0]
ChapterRef(ch_id) == [file |-> "chapter_%s.xhtml", ch |-> ch_id]

\* A faulty variant of lines 191-194: the chapters section is built without the
\* first chapter.
Toc_WithoutFirst(chapters) ==
    [intro |-> IntroRef,
     section |-> [i \in 1..(Len(chapters) - 1) |-> ChapterRef(chapters[i + 1].id)]]

Toc(chapters) ==
    [intro |-> IntroRef, section |-> [i \in 1..Len(chapters) |-> ChapterRef(chapters[i].id)]]
Spine(chapters) ==
    <<IntroRef, NavRef>> \o [i \in 1..Len(chapters) |-> ChapterRef(chapters[i].id)]

EpubBook(fid, chapters) ==
    [ identifier |-> fid,
      pages      |-> chapters,
      toc        |-> Toc(chapters),
      spine      |-> Spine(chapters) ]

\* -------------------------------------------------------------------- Init
NewThread ==
    [ pc       |-> "unstarted",
      link     |-> "",
      heading  |-> None,
      ch_id    |-> 0,
      chapters |-> <<>>,
      ebook    |-> None,
      fetched  |-> {},     \* chapters a network fetch was issued for
      ffail    |-> {},     \* chapters whose fetch failed
      creads   |-> {},     \* cache files read
      cwrites  |-> {},     \* cache files written
      exit     |-> "none", \* how package_fanfic ended
      cause    |-> "none", \* what ended it early
      report   |-> "none"  \* the failure line printed last
    ]

ArgvIds == { Match(argv[i]).id : i \in { j \in 1..Len(argv) : Match(argv[j]) # None } }

\* The site serves the works in `works`; a work no link names is never asked for.
Serves(works) ==
    \E s \in [ArgvIds -> works] :
        site = [f \in Fids |-> IF f \in ArgvIds THEN s[f] ELSE DownSite]

\* The files of earlier runs, of the works on the command line: cache files
\* of any chapter when the site declares no chapter count (none of them is
\* then looked at), else of the chapters it declares.
EarlierCache ==
    \E present \in SUBSET { f \in CacheFiles :
                              /\ f[1] \in ArgvIds
                              /\ site[f[1]].Chapters = 0 \/ f[2] <= site[f[1]].Chapters } :
        cachedir = [f \in CacheFiles |-> IF f \in present THEN Stale ELSE None]
NoEarlierCache == cachedir = [f \in CacheFiles |-> None]
EarlierOutput ==
    \E present \in SUBSET { f \in OutFiles : f[2] \in ArgvIds } :
        outdir = [f \in OutFiles |-> IF f \in present THEN Old ELSE None]
\* Every output file of the run is there already, or none is.
AllOrNoEarlierOutput ==
    \E present \in BOOLEAN :
        outdir = [f \in OutFiles |-> IF present /\ f[2] \in ArgvIds THEN Old ELSE None]

Boot ==
    /\ main = [pc |-> "args", next |-> 1, threads |-> <<>>]
    /\ unit = [u \in Threads |-> NewThread]

\* Runs with at most one link, over every site, environment and earlier file.
InitWork ==
    /\ argv \in UNION { [1..n -> Links] : n \in 0..1 }
    /\ FF_CACHE \in EnvValues
    /\ Serves(Sites)
    /\ stylecss \in BOOLEAN
    /\ EarlierCache
    /\ EarlierOutput
    /\ Boot

\* Runs with several links, well-formed or not, started with an empty cache,
\* caching on or off.
InitRun ==
    /\ argv \in UNION { [1..n -> RunLinks] : n \in 2..MaxLinks }
    /\ FF_CACHE \in {"unset", "yes"}
    /\ Serves(RunSites)
    /\ stylecss = TRUE
    /\ NoEarlierCache
    /\ AllOrNoEarlierOutput
    /\ Boot

Init == InitWork \/ InitRun

\* ------------------------------------------------------------- main thread
\* Lines 237-239: without a link the program prints its usage and exits.
CheckArgs ==
    /\ main.pc = "args"
    /\ main' = [main EXCEPT !.pc = IF Len(argv) < 1 THEN "usage" ELSE "start"]
    /\ UNCHANGED <<argv, FF_CACHE, site, stylecss, cachedir, outdir, unit>>

\* Lines 246-249: one FictionThread per link, started in command-line order.
StartThread ==
    /\ main.pc = "start"
    /\ main.next <= Len(argv)
    /\ unit' = [unit EXCEPT ![main.next] = [@ EXCEPT !.pc = "init", !.link = argv[main.next]]]
    /\ main' = [ pc      |-> IF main.next = Len(argv) THEN "join" ELSE "start",
                 next    |-> main.next + 1,
                 threads |-> Append(main.threads, main.next) ]
    /\ UNCHANGED <<argv, FF_CACHE, site, stylecss, cachedir, outdir>>

Finished(u) == unit[u].pc \in {"done", "failed"}

\* A faulty variant of join: it does not wait.
Joinable_NoWait(head) == TRUE

\* Thread.join(): returns once the thread has ended, however it ended.
Joinable(head) == Finished(head)

\* Lines 251-253: join the threads in start order.
Join ==
    /\ main.pc = "join"
    /\ main.threads # <<>>
    /\ Joinable(Head(main.threads))
    /\ main' = [main EXCEPT !.threads = Tail(main.threads)]
    /\ UNCHANGED <<argv, FF_CACHE, site, stylecss, cachedir, outdir, unit>>

\* Line 255: print("COMPLETE").
Complete ==
    /\ main.pc = "join"
    /\ main.threads = <<>>
    /\ main' = [main EXCEPT !.pc = "complete"]
    /\ UNCHANGED <<argv, FF_CACHE, site, stylecss, cachedir, outdir, unit>>

\* ---------------------------------------------------------- package_fanfic
fic_id(u) == Match(unit[u].link).id
fic_slug(u) == Match(unit[u].link).slug

\* exit(-1) inside a thread raises SystemExit in that thread: the thread ends,
\* the others and the main thread go on.  t is the thread's state.
Exit(t, report, cause) ==
    [t EXCEPT !.pc = "failed", !.exit = "SystemExit", !.report = report, !.cause = cause]

\* An exception no except clause of package_fanfic matches leaves run(): the
\* thread ends with a traceback and no line of its own.
Raise(t, error, cause) ==
    [t EXCEPT !.pc = "failed", !.exit = error, !.cause = cause]

\* Lines 114-121: the link is matched before anything is fetched.
Validate(u) ==
    /\ unit[u].pc = "init"
    /\ unit' = [unit EXCEPT ![u] =
                  IF Match(@.link) = None
                  THEN Exit(@, "Impossible de recuperer les informations depuis l'URL", "link")
                  ELSE [@ EXCEPT !.pc = "meta"]]
    /\ UNCHANGED <<argv, FF_CACHE, site, stylecss, cachedir, outdir, main>>

\* The state of thread t when the loop of line 169 moves on from chapter n.
NextChapter(t, n) ==
    IF n + 1 > t.heading.Chapters
    THEN [t EXCEPT !.pc = "save", !.ch_id = 0]
    ELSE [t EXCEPT !.pc = "loop", !.ch_id = n + 1]

\* The handler of lines 212-214, for every FileNotFoundError of the outer try.
OuterExcept(t, cause) == Exit(t, "Failed to fetch first chapter", cause)

\* Lines 123-168: fetch chapter 1, extract the heading, read style.css, build
\* the intro page and chapter 1.
FetchMetadata(u) ==
    /\ unit[u].pc = "meta"
    /\ LET t == [unit[u] EXCEPT !.fetched = {1}]
           chapter_data == download_chapter(fic_id(u), 1)
           heading == extract_header(chapter_data)
           h == [t EXCEPT !.heading = heading]
           first == extract_chapter(chapter_data, heading.chapter_titles[1])
       IN unit' = [unit EXCEPT ![u] =
            IF chapter_data.raise # "none"
            THEN OuterExcept([t EXCEPT !.ffail = {1}], "fetch")
            ELSE IF heading.raise # "none"
            THEN Raise(t, heading.raise, "header")
            ELSE IF ~stylecss
            THEN OuterExcept(h, "style")
            ELSE IF 1 \notin DOMAIN heading.chapter_titles
            THEN Raise(h, "KeyError", "title")
            ELSE IF first.raise # "none"
            THEN Raise(h, first.raise, "chapter")
            ELSE NextChapter([h EXCEPT !.chapters =
                                 <<EpubHtml(1, heading.chapter_titles[1], first)>>], 1)]
    /\ UNCHANGED <<argv, FF_CACHE, site, stylecss, cachedir, outdir, main>>

\* A faulty variant of line 174: the cache file is never found.
CacheHit_Never(chapter_file) == FALSE

\* Line 174: path.exists(chapter_file) and USE_CACHE
CacheHit(chapter_file) == cachedir[chapter_file] # None /\ USE_CACHE

\* Faulty variants of the handler of lines 187-188: one keeps an empty page
\* in place of the chapter, one lets the error reach the outer handler.
InnerExcept_Placeholder(t, n) ==
    NextChapter([t EXCEPT !.ffail = @ \cup {n}, !.report = "Failed to fetch chapter",
                          !.chapters = Append(@, EpubHtml(n, t.heading.chapter_titles[n], Empty))], n)
InnerExcept_Fatal(t, n) ==
    Exit([t EXCEPT !.ffail = @ \cup {n}], "Failed to fetch first chapter", "fetch")
\* Another faulty variant: the loop tries the same chapter again.
InnerExcept_Retry(t, n) ==
    [t EXCEPT !.ffail = @ \cup {n}, !.report = "Failed to fetch chapter"]

\* The handler of lines 187-188: the chapter is skipped.
InnerExcept(t, n) ==
    NextChapter([t EXCEPT !.ffail = @ \cup {n}, !.report = "Failed to fetch chapter"], n)

\* Lines 169-188, one turn of the loop up to the cache write: the title, the
\* cache file if it is there and caching is on, else the download and the
\* transformation.
Chapter(u) ==
    /\ unit[u].pc = "loop"
    /\ LET t == unit[u]
           n == t.ch_id
           chapter_file == CacheFile(fic_id(u), n)
           f == [t EXCEPT !.fetched = @ \cup {n}]
           page == download_chapter(fic_id(u), n)
           chapter_data == extract_chapter(page, t.heading.chapter_titles[n])
       IN unit' = [unit EXCEPT ![u] =
            IF n \notin DOMAIN t.heading.chapter_titles
            THEN Raise(t, "KeyError", "title")
            ELSE IF CacheHit(chapter_file)
            THEN NextChapter([t EXCEPT !.creads = @ \cup {chapter_file},
                                       !.chapters = Append(@, EpubHtml(n, t.heading.chapter_titles[n],
                                                                       cachedir[chapter_file]))], n)
            ELSE IF page.raise # "none"
            THEN InnerExcept(f, n)
            ELSE IF chapter_data.raise # "none"
            THEN Raise(f, chapter_data.raise, "chapter")
            ELSE IF USE_CACHE
            THEN [f EXCEPT !.pc = "cache_open"]
            ELSE NextChapter([f EXCEPT !.chapters =
                                 Append(@, EpubHtml(n, t.heading.chapter_titles[n], chapter_data))], n)]
    /\ UNCHANGED <<argv, FF_CACHE, site, stylecss, cachedir, outdir, main>>

\* The page thread u is writing to the cache: the chapter it has just
\* downloaded and transformed.
Downloaded(u) ==
    extract_chapter(download_chapter(fic_id(u), unit[u].ch_id),
                    unit[u].heading.chapter_titles[unit[u].ch_id])

\* write_chapter, lines 103-109: makedirs, then open(fname, 'w+') creates the
\* file or truncates it.
CacheOpen(u) ==
    /\ unit[u].pc = "cache_open"
    /\ cachedir' = [cachedir EXCEPT ![CacheFile(fic_id(u), unit[u].ch_id)] = Empty]
    /\ unit' = [unit EXCEPT ![u] = [@ EXCEPT !.pc = "cache_write"]]
    /\ UNCHANGED <<argv, FF_CACHE, site, stylecss, outdir, main>>

\* A faulty variant of line 180: the page is cached as downloaded, before
\* extract_chapter has rendered it.
CacheWrite_Raw(u) ==
    /\ unit[u].pc = "cache_write"
    /\ LET t == unit[u]
           n == t.ch_id
           fname == CacheFile(fic_id(u), n)
       IN /\ cachedir' = [cachedir EXCEPT ![fname] = download_chapter(fic_id(u), n)]
          /\ unit' = [unit EXCEPT ![u] =
                NextChapter([t EXCEPT !.cwrites = @ \cup {fname},
                                      !.chapters = Append(@, EpubHtml(n, t.heading.chapter_titles[n],
                                                                      Downloaded(u)))], n)]
    /\ UNCHANGED <<argv, FF_CACHE, site, stylecss, outdir, main>>

\* write_chapter, line 110, and lines 182-186: the page is written and the
\* file closed; the chapter joins `chapters`.
CacheWrite(u) ==
    /\ unit[u].pc = "cache_write"
    /\ LET t == unit[u]
           n == t.ch_id
           fname == CacheFile(fic_id(u), n)
       IN /\ cachedir' = [cachedir EXCEPT ![fname] = Downloaded(u)]
          /\ unit' = [unit EXCEPT ![u] =
                NextChapter([t EXCEPT !.cwrites = @ \cup {fname},
                                      !.chapters = Append(@, EpubHtml(n, t.heading.chapter_titles[n],
                                                                      Downloaded(u)))], n)]
    /\ UNCHANGED <<argv, FF_CACHE, site, stylecss, outdir, main>>

\* A faulty variant of lines 160-204: `chapters` is one list for all threads,
\* so a book also gets the chapters another thread has appended so far.
SaveCheck_SharedChapters(u) ==
    /\ unit[u].pc = "save"
    /\ LET filename == OutFile(fic_slug(u), fic_id(u))
           others == { v \in Threads \ {u} : unit[v].chapters # <<>> }
           shared == IF others = {} THEN unit[u].chapters
                     ELSE unit[u].chapters \o unit[CHOOSE v \in others : TRUE].chapters
       IN unit' = [unit EXCEPT ![u] =
             [@ EXCEPT !.ebook = EpubBook(fic_id(u), shared),
                       !.pc = IF outdir[filename] # None THEN "remove" ELSE "write"]]
    /\ UNCHANGED <<argv, FF_CACHE, site, stylecss, cachedir, outdir, main>>

\* Lines 190-208: table of contents, navigation, spine; then path.exists on
\* the output file.
SaveCheck(u) ==
    /\ unit[u].pc = "save"
    /\ LET filename == OutFile(fic_slug(u), fic_id(u))
       IN unit' = [unit EXCEPT ![u] =
             [@ EXCEPT !.ebook = EpubBook(fic_id(u), unit[u].chapters),
                       !.pc = IF outdir[filename] # None THEN "remove" ELSE "write"]]
    /\ UNCHANGED <<argv, FF_CACHE, site, stylecss, cachedir, outdir, main>>

\* Line 209: remove(filename); FileNotFoundError if the file is gone by now.
SaveRemove(u) ==
    /\ unit[u].pc = "remove"
    /\ LET filename == OutFile(fic_slug(u), fic_id(u))
       IN IF outdir[filename] # None
          THEN /\ outdir' = [outdir EXCEPT ![filename] = None]
               /\ unit' = [unit EXCEPT ![u] = [@ EXCEPT !.pc = "write"]]
          ELSE /\ unit' = [unit EXCEPT ![u] = OuterExcept(@, "remove")]
               /\ UNCHANGED outdir
    /\ UNCHANGED <<argv, FF_CACHE, site, stylecss, cachedir, main>>

\* Line 210: epub.write_epub(filename, ebook, {}); package_fanfic returns.
SaveWrite(u) ==
    /\ unit[u].pc = "write"
    /\ outdir' = [outdir EXCEPT ![OutFile(fic_slug(u), fic_id(u))] = unit[u].ebook]
    /\ unit' = [unit EXCEPT ![u] = [@ EXCEPT !.pc = "done", !.exit = "return"]]
    /\ UNCHANGED <<argv, FF_CACHE, site, stylecss, cachedir, main>>

\* FictionThread.run
Run(u) ==
    \/ Validate(u)
    \/ FetchMetadata(u)
    \/ Chapter(u)
    \/ CacheOpen(u)
    \/ CacheWrite(u)
    \/ SaveCheck(u)
    \/ SaveRemove(u)
    \/ SaveWrite(u)

Next ==
    \/ CheckArgs
    \/ StartThread
    \/ Join
    \/ Complete
    \/ \E u \in Threads : Run(u)

Spec == Init /\ [][Next]_vars

\* The scheduler lets some thread that can take a step take it; every request
\* and file operation returns.
Fairness == WF_vars(Next)

\* Runs with several links, of complete works, with caching on and every
\* output file there already.
InitJoin ==
    /\ argv \in UNION { [1..n -> RunLinks] : n \in 2..MaxLinks }
    /\ FF_CACHE = "yes"
    /\ Serves({CompleteSite(2)})
    /\ stylecss = TRUE
    /\ NoEarlierCache
    /\ outdir = [f \in OutFiles |-> Old]
    /\ Boot

FairInit == InitWork \/ InitJoin

FairSpec == FairInit /\ [][Next]_vars /\ Fairness

\* ================================================================ properties
Started(u) == unit[u].pc # "unstarted"
Running(u) == Started(u) /\ ~Finished(u)
Valid(u) == Started(u) /\ Match(unit[u].link) # None

Range(seq) == { seq[i] : i \in 1..Len(seq) }
Ids(pages) == [i \in 1..Len(pages) |-> pages[i].id]
Ascending(ids) == \A i \in 1..(Len(ids) - 1) : ids[i] < ids[i + 1]

\* The chapters after the first that thread u got, from the site or the cache.
Obtained(u) ==
    { n \in 2..unit[u].heading.Chapters :
        \/ n \in unit[u].fetched \ unit[u].ffail
        \/ CacheFile(fic_id(u), n) \in unit[u].creads }

\* The number of chapters a work of the site declares.
Declared(w) == IF w.Chapters = 0 THEN 1 ELSE w.Chapters

\* A work of the site whose first page yields a heading with every title.
HeadingOk(w) ==
    /\ w.page[1] = "ok"
    /\ w.profile_top
    /\ w.Chapters # 0 => w.chap_select /\ w.options >= w.Chapters

\* C1: in every book that reaches packaging the spine is the intro page, the
\* navigation page and then the chapter pages in strictly ascending chapter
\* number; the chapter pages are chapter 1 and exactly the later chapters that
\* were obtained from a fetch or from the cache, so a chapter whose fetch
\* failed is in neither; and every output file written is such a book.
C1_SpineIsIntroNavChapters ==
    /\ \A u \in Threads :
         unit[u].ebook # None =>
           LET b == unit[u].ebook
               ids == Ids(b.pages)
           IN  /\ b.spine = <<IntroRef, NavRef>> \o [i \in 1..Len(ids) |-> ChapterRef(ids[i])]
               /\ Len(b.spine) = 2 + Len(b.pages)
               /\ Ascending(ids)
               /\ Range(ids) = {1} \cup Obtained(u)
               /\ \A n \in unit[u].ffail : n \notin Range(ids)
    /\ \A f \in OutFiles :
         outdir[f] \notin {None, Old} => \E u \in Threads : outdir[f] = unit[u].ebook

\* A book was written whose chapter 2 failed to download and whose chapter 3
\* is there.
C1_Witness ==
    \E u \in Threads :
        /\ unit[u].pc = "done"
        /\ 2 \in unit[u].ffail
        /\ Ids(unit[u].ebook.pages) = <<1, 3>>
        /\ outdir[OutFile(fic_slug(u), fic_id(u))] = unit[u].ebook

\* C2: a failed fetch of a chapter after the first is caught at that chapter:
\* the thread is past that chapter (at a later one, or packaging) and has not
\* failed at it; and a thread that has ended on a work where nothing but
\* fetches of later chapters fails has built its book and written it (the
\* only other end being the FileNotFoundError of remove at line 209, which
\* needs another thread on the same output file).
C2_FetchFailureSkipsChapter ==
    \A u \in Threads :
        LET t == unit[u] IN
        /\ \A n \in t.ffail \ {1} :
             IF t.ch_id # 0
             THEN t.ch_id > n
             ELSE \/ t.pc \in {"save", "remove", "write", "done"}
                  \/ t.pc = "failed" /\ t.cause = "remove"
        /\ ( /\ Finished(u) /\ Valid(u) /\ stylecss
             /\ HeadingOk(site[fic_id(u)])
             /\ \A n \in 2..Declared(site[fic_id(u)]) : site[fic_id(u)].page[n] \in {"ok", "404"} )
           => /\ t.ebook # None
              /\ t.ffail = { n \in 2..Declared(site[fic_id(u)]) : site[fic_id(u)].page[n] = "404" }
                              \ { n \in 2..MaxChapters : CacheFile(fic_id(u), n) \in t.creads }
              /\ t.pc = "done" \/ t.cause = "remove"

\* A work was written although every chapter after the first failed to
\* download, two of them at least.
C2_Witness ==
    \E u \in Threads :
        /\ unit[u].pc = "done"
        /\ unit[u].heading.Chapters >= 3
        /\ unit[u].ffail = 2..unit[u].heading.Chapters
        /\ Ids(unit[u].ebook.pages) = <<1>>

\* C3 (as claimed): no thread fails at a chapter after the first because the
\* chapter's page has no story text: the chapter is skipped.
C3_ChapterParseFailureSkipped ==
    \A u \in Threads :
        ~(unit[u].pc = "failed" /\ unit[u].ch_id >= 2 /\ unit[u].cause = "chapter")

\* C4: when the fetch of chapter 1 fails, or the heading cannot be extracted
\* (no profile region, or Chapters declared and no chapter selector), the
\* thread fails having fetched chapter 1 only: no cache file read or written,
\* no chapter page, no book, no output file.
C4_MetadataFailureIsFatal ==
    \A u \in Threads :
        ( /\ Valid(u) /\ unit[u].pc # "init" /\ unit[u].pc # "meta"
          /\ LET w == site[fic_id(u)]
             IN \/ w.page[1] = "404"
                \/ ~w.profile_top
                \/ w.Chapters # 0 /\ ~w.chap_select )
        => /\ unit[u].pc = "failed"
           /\ unit[u].cause \in {"fetch", "header"}
           /\ unit[u].fetched = {1}
           /\ unit[u].creads = {} /\ unit[u].cwrites = {}
           /\ unit[u].chapters = <<>> /\ unit[u].ebook = None
           /\ (\A v \in Threads \ {u} : ~Started(v))
                 => /\ \A f \in CacheFiles : cachedir[f] \in {None, Stale}
                    /\ \A f \in OutFiles : outdir[f] \in {None, Old}

\* With caching on and chapter 2 in the cache, a thread failed on a page
\* without a selector although the info line declares chapters.
C4_Witness ==
    \E u \in Threads :
        /\ unit[u].pc = "failed" /\ unit[u].cause = "header"
        /\ site[fic_id(u)].profile_top /\ ~site[fic_id(u)].chap_select
        /\ USE_CACHE /\ cachedir[CacheFile(fic_id(u), 2)] = Stale

\* A work of the site that is all there: heading, titles, every chapter.
SiteOk(w) == HeadingOk(w) /\ \A n \in 1..Declared(w) : w.page[n] = "ok"

\* C5 (as claimed): whatever the other threads do, a thread whose own link is
\* valid and whose fetches and parses all succeed (style.css being there)
\* ends done, its package written.
C5_OwnSuccessMeansDone ==
    \A u \in Threads :
        (Finished(u) /\ Valid(u) /\ stylecss /\ SiteOk(site[fic_id(u)]))
        => unit[u].pc = "done"

\* C6 (as claimed): every thread that has ended has left package_fanfic by
\* returning or by exit(-1) after a line of its own: no other error leaves it.
C6_NoErrorEscapes ==
    \A u \in Threads :
        Finished(u) =>
            /\ unit[u].exit \in {"return", "SystemExit"}
            /\ unit[u].pc = "failed" => unit[u].report # "none"

\* C7: the threads started are one per link, in command-line order, all of
\* them started before the first join; COMPLETE is printed only once every
\* one of them has ended, done or failed.
C7_CompleteAfterAllEnded ==
    /\ \A u \in Threads : Started(u) <=> u < main.next
    /\ \A u \in Threads : Started(u) => u <= Len(argv) /\ unit[u].link = argv[u]
    /\ main.pc \in {"join", "complete"} => main.next = Len(argv) + 1
    /\ main.pc = "join" =>
          \A u \in 1..Len(argv) : Finished(u) \/ u \in Range(main.threads)
    /\ main.pc = "complete" => \A u \in 1..Len(argv) : Finished(u)

\* COMPLETE was printed after the first thread failed and the second wrote
\* its book.
C7_Witness ==
    /\ main.pc = "complete"
    /\ Len(argv) >= 2
    /\ unit[1].pc = "failed"
    /\ unit[2].pc = "done"

\* What a step of thread u does to the cache when caching is on.
C8_Step(u) ==
    LET t == unit[u]
        t2 == unit'[u]
        n == t.ch_id
        file == CacheFile(fic_id(u), n)
        title == t.heading.chapter_titles[n]
        rendered == extract_chapter(download_chapter(fic_id(u), n), title)
    IN  /\ (t.pc = "loop" /\ t2 # t /\ USE_CACHE /\ n \in DOMAIN t.heading.chapter_titles) =>
              IF cachedir[file] # None
              THEN /\ t2.chapters = Append(t.chapters, EpubHtml(n, title, cachedir[file]))
                   /\ t2.fetched = t.fetched
                   /\ t2.creads = t.creads \cup {file}
                   /\ cachedir' = cachedir
              ELSE /\ t2.fetched = t.fetched \cup {n}
                   /\ t2.creads = t.creads
                   /\ site[fic_id(u)].page[n] = "ok" => t2.pc = "cache_open"
        /\ (t.pc = "cache_open" /\ t2 # t) => t2.pc = "cache_write"
        /\ (t.pc = "cache_write" /\ t2 # t) =>
              /\ cachedir'[file] = rendered
              /\ rendered.raise = "none"
              /\ t2.chapters = Append(t.chapters, EpubHtml(n, title, rendered))
              /\ file \in t2.cwrites

\* C8: with caching on, a chapter after the first that has a cache file gets
\* the file's contents as its page, unchanged, and is not fetched; one that
\* has none is fetched, transformed, and the rendered page is written to the
\* file of that work and chapter.
C8_CacheUsedVerbatim == [][\A u \in Threads : C8_Step(u)]_vars

\* A book was written with a chapter taken from the cache that the site no
\* longer serves, and with a downloaded chapter that was written to the cache.
C8_Witness ==
    \E u \in Threads :
        /\ unit[u].pc = "done"
        /\ \E f \in unit[u].creads :
              /\ site[fic_id(u)].page[f[2]] = "404"
              /\ f[2] \in Range(Ids(unit[u].ebook.pages))
        /\ \E g \in unit[u].cwrites : cachedir[g] # None /\ cachedir[g].kind = "rendered"

\* Thread u has dealt with chapter n.
Past(u, n) ==
    /\ unit[u].chapters # <<>>
    /\ IF unit[u].ch_id # 0
       THEN unit[u].ch_id > n
       ELSE \/ unit[u].pc \in {"save", "remove", "write", "done"}
            \/ unit[u].pc = "failed" /\ unit[u].cause = "remove"

\* C9: with caching off (FF_CACHE unset, or set to anything but "yes") the
\* cache files stay what they were, no thread reads, opens or writes one, and
\* every chapter after the first is fetched from the site, its page being the
\* one rendered from that fetch, also when a cache file for it exists.
C9_CacheOffNoCacheAccess ==
    FF_CACHE # "yes" =>
        /\ \A f \in CacheFiles : cachedir[f] \in {None, Stale}
        /\ \A u \in Threads :
             /\ unit[u].creads = {} /\ unit[u].cwrites = {}
             /\ unit[u].pc \notin {"cache_open", "cache_write"}
             /\ \A i \in 1..Len(unit[u].chapters) :
                  /\ unit[u].chapters[i].id \in unit[u].fetched \ unit[u].ffail
                  /\ unit[u].chapters[i].content.kind = "rendered"
             /\ Valid(u) =>
                  \A n \in 2..Declared(site[fic_id(u)]) : Past(u, n) => n \in unit[u].fetched

\* FF_CACHE is set, but not to "yes": a book was written with chapter 2
\* fetched although its cache file is there.
C9_Witness ==
    \E u \in Threads :
        /\ FF_CACHE = "YES"
        /\ unit[u].pc = "done"
        /\ cachedir[CacheFile(fic_id(u), 2)] = Stale
        /\ Ids(unit[u].ebook.pages) = <<1, 2>>
        /\ 2 \in unit[u].fetched

\* The cache files thread u has read, written, or holds open for writing.
Touched(u) ==
    unit[u].creads \cup unit[u].cwrites
      \cup (IF unit[u].pc = "cache_write" THEN {CacheFile(fic_id(u), unit[u].ch_id)} ELSE {})

\* C10 (as claimed): no two running threads read or write the same cache
\* file, whatever the links, and so no thread's chapter is the empty file
\* another thread has opened and not yet written.
C10_NoSharedCacheFile ==
    /\ \A u, v \in Threads :
         (u # v /\ Running(u) /\ Running(v)) => Touched(u) \cap Touched(v) = {}
    /\ \A u \in Threads :
         \A i \in 1..Len(unit[u].chapters) : unit[u].chapters[i].content # Empty

\* C10 (amended): threads of different work ids never read or write the same
\* cache file: each thread's files are under its own work id; and a thread
\* can only get another thread's half-written file if both have the same
\* work id.
C10_DistinctWorksDistinctFiles ==
    /\ \A u \in Threads : \A f \in Touched(u) : f[1] = fic_id(u)
    /\ \A u, v \in Threads :
         (u < v /\ Valid(u) /\ Valid(v) /\ fic_id(u) # fic_id(v)) => Touched(u) \cap Touched(v) = {}
    /\ \A u \in Threads :
         (\E i \in 1..Len(unit[u].chapters) : unit[u].chapters[i].content = Empty)
         => \E v \in Threads \ {u} : Valid(v) /\ fic_id(v) = fic_id(u)

\* Two threads of different works have each written a cache file.
C10_Witness ==
    \E u, v \in Threads :
        /\ Valid(u) /\ Valid(v) /\ fic_id(u) # fic_id(v)
        /\ unit[u].cwrites # {} /\ unit[v].cwrites # {}

\* The links that are not of the shape scheme://[www.]host/s/{id}/{ch}/{slug}.
Malformed == { "https://www.fanfiction.net/u/1/a" }

Untouched ==
    /\ \A f \in CacheFiles : cachedir[f] \in {None, Stale}
    /\ \A f \in OutFiles : outdir[f] \in {None, Old}

\* C11: the thread of a malformed link ends at the match of the link, with
\* the line about the URL: it fetches nothing, reads and writes no cache file,
\* builds no page and no book; a run of malformed links only leaves the cache
\* and the output files as they were.
C11_InvalidLinkRejectedBeforeFetch ==
    /\ \A u \in Threads :
         (Started(u) /\ unit[u].link \in Malformed) =>
            /\ unit[u].pc \in {"init", "failed"}
            /\ unit[u].pc = "failed" =>
                  /\ unit[u].cause = "link"
                  /\ unit[u].exit = "SystemExit"
                  /\ unit[u].report = "Impossible de recuperer les informations depuis l'URL"
            /\ unit[u].fetched = {}
            /\ unit[u].creads = {} /\ unit[u].cwrites = {}
            /\ unit[u].heading = None
            /\ unit[u].chapters = <<>> /\ unit[u].ebook = None
    /\ (\A i \in 1..Len(argv) : argv[i] \in Malformed) => Untouched

\* The thread of a malformed link was rejected while the thread of a valid
\* link, started after it, fetched its work and wrote it.
C11_Witness ==
    /\ Len(argv) >= 2
    /\ unit[1].link \in Malformed /\ unit[1].pc = "failed" /\ unit[1].cause = "link"
    /\ unit[2].pc = "done" /\ unit[2].fetched # {}

\* C12 (as claimed): once a thread has found its link malformed the run does
\* not go on to report itself complete.
C12_MalformedLinkFailsRun ==
    (\E u \in Threads : unit[u].pc = "failed" /\ unit[u].cause = "link")
    => main.pc # "complete"

\* C13 (as claimed): every heading extract_header returns has a title for
\* every chapter in 1..Chapters, exactly those for a work that declares its
\* chapters, so no thread ends on the lookup of a chapter's title.
C13_TitlesCoverChapters ==
    \A u \in Threads :
        /\ unit[u].heading # None =>
              DOMAIN unit[u].heading.chapter_titles = 1..unit[u].heading.Chapters
        /\ ~(unit[u].pc = "failed" /\ unit[u].cause = "title")

\* The page of the only chapter of a work, rendered under the work's title.
OnlyPage(fid) ==
    EpubHtml(1, WorkTitle,
             [raise |-> "none", kind |-> "rendered", title |-> WorkTitle, body |-> <<fid, 1>>])

\* C14: on a first page with a profile region and no Chapters key the heading
\* has Chapters = 1 and the work's title as the title of chapter 1; the thread
\* fetches chapter 1 only and never reads, opens or writes a cache file, also
\* when caching is on and cache files of the work exist; the book it builds
\* has the one chapter page, titled with the work's title; and with style.css
\* and the story text there it does build the book and writes it (the only
\* other end being the FileNotFoundError of remove at line 209).
C14_SingleChapterWork ==
    \A u \in Threads :
        ( /\ Valid(u) /\ unit[u].pc # "init" /\ unit[u].pc # "meta"
          /\ site[fic_id(u)].page[1] # "404"
          /\ site[fic_id(u)].profile_top
          /\ site[fic_id(u)].Chapters = 0 )
        => LET t == unit[u] IN
           /\ t.heading # None =>
                 /\ t.heading.Chapters = 1
                 /\ t.heading.chapter_titles = (1 :> t.heading.title)
           /\ t.fetched = {1}
           /\ t.creads = {} /\ t.cwrites = {}
           /\ t.pc \notin {"loop", "cache_open", "cache_write"}
           /\ t.chapters \in {<<>>, <<OnlyPage(fic_id(u))>>}
           /\ t.ebook # None =>
                 /\ t.ebook.pages = <<OnlyPage(fic_id(u))>>
                 /\ t.ebook.spine = <<IntroRef, NavRef, ChapterRef(1)>>
           /\ t.pc = "done" => outdir[OutFile(fic_slug(u), fic_id(u))] \in {None, t.ebook}
           /\ (Finished(u) /\ stylecss /\ site[fic_id(u)].page[1] = "ok") =>
                 /\ t.ebook # None
                 /\ t.pc = "done" \/ t.cause = "remove"

\* With caching on and chapter 2 of the work in the cache, a work without a
\* Chapters key was written with its one chapter.
C14_Witness ==
    \E u \in Threads :
        /\ unit[u].pc = "done"
        /\ site[fic_id(u)].Chapters = 0
        /\ USE_CACHE /\ cachedir[CacheFile(fic_id(u), 2)] = Stale
        /\ Len(unit[u].ebook.pages) = 1

\* C15 (as claimed): a thread that has built its book never fails, whatever
\* file is at the output path and whatever the other threads do; and once
\* the threads are through, the output path of a thread that is done holds a
\* newly built book, not the earlier file and not nothing.
C15_OutputReplaced ==
    \A u \in Threads :
        /\ unit[u].ebook # None => unit[u].pc # "failed"
        /\ (unit[u].pc = "done" /\ \A v \in Threads : ~Running(v)) =>
              outdir[OutFile(fic_slug(u), fic_id(u))] \notin {None, Old}

\* What became of chapter n in thread u: read from the cache, fetched and
\* failed, or fetched.
Outcome(u, n) ==
    IF CacheFile(fic_id(u), n) \in unit[u].creads THEN "cache"
    ELSE IF n \in unit[u].ffail THEN "failed"
    ELSE IF n \in unit[u].fetched THEN "fetched"
    ELSE "none"

\* C16: two books built from the same heading (title, chapter count, chapter
\* titles) with the same outcome for every chapter have the same table of
\* contents and the same spine, whichever links, threads and works they come
\* from and however their threads were interleaved.
C16_SameInputsSameOrder ==
    \A u, v \in Threads :
        ( /\ u < v
          /\ unit[u].ebook # None /\ unit[v].ebook # None
          /\ unit[u].heading = unit[v].heading
          /\ \A n \in ChapterIds : Outcome(u, n) = Outcome(v, n) )
        => /\ unit[u].ebook.toc = unit[v].ebook.toc
           /\ unit[u].ebook.spine = unit[v].ebook.spine

\* Two threads of different links built books from equal headings and equal
\* outcomes, a failed fetch of chapter 2 among them.
C16_Witness ==
    \E u, v \in Threads :
        /\ u # v /\ unit[u].link # unit[v].link
        /\ unit[u].ebook # None /\ unit[v].ebook # None
        /\ unit[u].heading = unit[v].heading
        /\ \A n \in ChapterIds : Outcome(u, n) = Outcome(v, n)
        /\ Outcome(u, 2) = "failed"

\* What a step does to thread u's progress through the chapters.
C17_Step(u) ==
    LET t == unit[u]
        t2 == unit'[u]
        file == CacheFile(fic_id(u), t.ch_id)
    IN  \* a fetch is of the chapter at hand, which was not fetched before
        /\ t2.fetched # t.fetched =>
              LET n == IF t.pc = "meta" THEN 1 ELSE t.ch_id
              IN  n \notin t.fetched /\ t2.fetched = t.fetched \cup {n}
        \* a failed fetch stays failed
        /\ t.ffail \subseteq t2.ffail
        \* a turn of the loop is for a chapter not handled before, and the
        \* loop moves on to a later chapter or ends
        /\ (t.pc = "loop" /\ t2 # t) =>
              /\ t.ch_id \notin t.fetched /\ file \notin t.creads
              /\ t.ch_id \notin Range(Ids(t.chapters))
              /\ t2.pc = "loop" => t2.ch_id > t.ch_id
        /\ (t.ch_id # 0 /\ t2.ch_id # 0) => t2.ch_id >= t.ch_id
        \* a thread that has ended stays as it ended
        /\ Finished(u) => t2 = t

\* The run is over: the usage line or COMPLETE is printed and every thread
\* started has ended.
Ended ==
    /\ main.pc \in {"usage", "complete"}
    /\ \A u \in Threads : Started(u) => Finished(u)

\* C17: under fair scheduling the run comes to its end, every started thread
\* ended, done or failed, and COMPLETE printed if there was a link; on the
\* way a thread fetches each chapter at most once, never again after a
\* failed fetch, takes the chapters in ascending order, each once, and once
\* ended stays ended.
C17_EveryUnitEnds ==
    /\ <>Ended
    /\ [](main.pc = "usage" => Len(argv) = 0)
    /\ [][\A u \in Threads : C17_Step(u)]_vars

\* COMPLETE was printed after a thread whose fetches of chapters 2 and 3 both
\* failed wrote its book.
C17_Witness ==
    /\ main.pc = "complete"
    /\ \E u \in Threads :
          /\ unit[u].pc = "done"
          /\ unit[u].ffail = {2, 3}
          /\ unit[u].fetched = {1, 2, 3}

\* The page of chapter f[2] of work f[1] as extract_chapter renders it.
Rendered(f) == extract_chapter(download_chapter(f[1], f[2]), OptionTitle(f[2]))

\* Thread u is between the open and the write of cache file f.
Writing(u, f) ==
    /\ unit[u].pc = "cache_write"
    /\ Valid(u) /\ f = CacheFile(fic_id(u), unit[u].ch_id)

\* What the cache holds and what the threads have done to it.
C18_State ==
    /\ \A f \in CacheFiles :
         /\ f[2] = 1 => cachedir[f] \in {None, Stale}
         /\ cachedir[f] \notin {None, Stale} =>
               /\ USE_CACHE
               /\ site[f[1]].page[f[2]] = "ok"
               /\ \E u \in Threads :
                     /\ Valid(u) /\ fic_id(u) = f[1]
                     /\ f[2] \in unit[u].fetched \ unit[u].ffail
               /\ IF \E u \in Threads : Writing(u, f)
                  THEN cachedir[f] \in {Empty, Rendered(f)}
                  ELSE cachedir[f] = Rendered(f)
    /\ \A u \in Threads :
         /\ \A f \in unit[u].creads \cup unit[u].cwrites : f[2] >= 2
         /\ \A f \in unit[u].cwrites : f[2] \in unit[u].fetched \ unit[u].ffail
         /\ unit[u].chapters # <<>> =>
               /\ 1 \in unit[u].fetched
               /\ unit[u].chapters[1] =
                     EpubHtml(1, unit[u].heading.chapter_titles[1],
                              extract_chapter(download_chapter(fic_id(u), 1),
                                              unit[u].heading.chapter_titles[1]))

\* What a step of thread u may do to the cache.
C18_Step(u) ==
    LET t == unit[u]
        t2 == unit'[u]
        file == CacheFile(fic_id(u), t.ch_id)
    IN  \* the steps up to the end of a turn of the loop leave the cache
        \* alone: a failed fetch, a failed transform, a cache hit
        /\ (t2 # t /\ t.pc \notin {"cache_open", "cache_write"}) =>
              /\ cachedir' = cachedir
              /\ t2.cwrites = t.cwrites
        \* the write follows a fetch and a transform that succeeded
        /\ (t2 # t /\ t2.pc = "cache_open") =>
              /\ t.pc = "loop" /\ t.ch_id >= 2 /\ USE_CACHE
              /\ cachedir[file] = None
              /\ t.ch_id \in t2.fetched \ t2.ffail
              /\ site[fic_id(u)].page[t.ch_id] = "ok"
        \* a chapter served from the cache is not written
        /\ (t2 # t /\ t.pc = "loop" /\ t2.creads # t.creads) =>
              /\ t2.pc # "cache_open"
              /\ t2.fetched = t.fetched
        \* a write changes the file of the chapter at hand and no other
        /\ (t2 # t /\ t.pc \in {"cache_open", "cache_write"}) =>
              /\ \A f \in CacheFiles \ {file} : cachedir'[f] = cachedir[f]
              /\ t.pc = "cache_write" => cachedir'[file] = Rendered(file)

\* C18: a cache file is written only for a chapter after the first that the
\* thread has just fetched and transformed with success, and once written
\* holds the rendered page of that chapter (it is empty between open and
\* write); a failed fetch, a failed transform and a chapter read from the
\* cache leave the cache as it is; chapter 1 is always fetched and its cache
\* file, if there is one, is never read or written.
C18_CacheWrittenAfterTransform ==
    /\ []C18_State
    /\ [][\A u \in Threads : C18_Step(u)]_vars

\* With caching on and cache files of chapters 1 and 3 there, a thread has
\* fetched chapters 1 and 2, written chapter 2 to the cache and read chapter 3
\* from it.
C18_Witness ==
    \E u \in Threads :
        /\ unit[u].pc = "done"
        /\ cachedir[CacheFile(fic_id(u), 1)] = Stale
        /\ unit[u].fetched = {1, 2}
        /\ unit[u].cwrites = {CacheFile(fic_id(u), 2)}
        /\ unit[u].creads = {CacheFile(fic_id(u), 3)}

\* C19 (as claimed): a thread that printed 'Failed to fetch first chapter'
\* had its fetch of chapter 1 fail, and one that printed 'Failed to fetch
\* chapter' had the fetch of a later chapter fail.
C19_ReportNamesFailedStep ==
    \A u \in Threads :
        /\ unit[u].report = "Failed to fetch first chapter" => 1 \in unit[u].ffail
        /\ unit[u].report = "Failed to fetch chapter" => unit[u].ffail \ {1} # {}

\* The chapter part of a spine: what follows the intro and navigation pages.
ChapterPart(spine) == SubSeq(spine, 3, Len(spine))

\* C20: in every book built, and so in every output file written, the
\* chapters section of the table of contents is the chapter part of the
\* spine, page for page, in the same order; it is not empty and starts with
\* chapter 1; and the pages it lists are the chapter pages of the book.
C20_TocMatchesSpine ==
    LET Good(b) ==
          /\ b.toc.intro = IntroRef
          /\ SubSeq(b.spine, 1, 2) = <<IntroRef, NavRef>>
          /\ b.toc.section = ChapterPart(b.spine)
          /\ Len(b.toc.section) >= 1
          /\ b.toc.section[1] = ChapterRef(1)
          /\ b.toc.section = [i \in 1..Len(b.pages) |-> ChapterRef(b.pages[i].id)]
    IN  /\ \A u \in Threads : unit[u].ebook # None => Good(unit[u].ebook)
        /\ \A f \in OutFiles : outdir[f] \notin {None, Old} => Good(outdir[f])

\* An output file was written whose table of contents lists chapters 1 and 3.
C20_Witness ==
    \E f \in OutFiles :
        /\ outdir[f] \notin {None, Old}
        /\ outdir[f].toc.section = <<ChapterRef(1), ChapterRef(3)>>
        /\ ChapterPart(outdir[f].spine) = <<ChapterRef(1), ChapterRef(3)>>

====
